---------------------------- MODULE Spec2Model ----------------------------
(***************************************************************************)
(* A model of the QuizWise backend (src/main.py): the three FastAPI        *)
(* handlers upload_file, generate_quiz and export_google_form, and the     *)
(* helpers clean_gemini_json and create_google_form.                       *)
(*                                                                         *)
(* Python strings are modelled as sequences of one-character strings, so   *)
(* that find, rfind, slicing, strip, lower, `in` and the option-prefix     *)
(* regular expression are computed as Python computes them.                *)
(***************************************************************************)
EXTENDS Integers, Sequences, FiniteSets, TLC

(***************************************************************************)
(* Bounds of the model.                                                    *)
(***************************************************************************)
MaxOptLen == 4
MaxRawLen == 4
MaxOpts == 2
MaxQuestions == 2
NumUploads == 2
MaxChunks == 2

(***************************************************************************)
(* Python string primitives.                                               *)
(***************************************************************************)
\* Python's None, where a string is expected
None == <<"None">>

Whitespace == {" "}

Lower(c) ==
    CASE c = "A" -> "a" [] c = "B" -> "b" [] c = "C" -> "c" [] c = "D" -> "d"
      [] c = "E" -> "e" [] c = "F" -> "f" [] c = "G" -> "g" [] c = "H" -> "h"
      [] c = "I" -> "i" [] c = "J" -> "j" [] c = "K" -> "k" [] c = "L" -> "l"
      [] c = "M" -> "m" [] c = "N" -> "n" [] c = "O" -> "o" [] c = "P" -> "p"
      [] c = "Q" -> "q" [] c = "R" -> "r" [] c = "S" -> "s" [] c = "T" -> "t"
      [] c = "U" -> "u" [] c = "V" -> "v" [] c = "W" -> "w" [] c = "X" -> "x"
      [] c = "Y" -> "y" [] c = "Z" -> "z"
      [] OTHER -> c

\* str.lower()
StrLower(s) == [i \in 1..Len(s) |-> Lower(s[i])]

\* str.strip(): leading and trailing whitespace removed
StrStrip(s) ==
    LET keep == {i \in 1..Len(s) : s[i] \notin Whitespace}
    IN  IF keep = {} THEN <<>>
        ELSE LET lo == CHOOSE i \in keep : \A j \in keep : i <= j
                 hi == CHOOSE i \in keep : \A j \in keep : j <= i
             IN  SubSeq(s, lo, hi)

\* needle in hay
StrContains(hay, needle) ==
    \E i \in 1..(Len(hay) - Len(needle) + 1) :
        SubSeq(hay, i, i + Len(needle) - 1) = needle

\* str.find(c): 0-based index of the first occurrence, -1 when there is none
PyFind(s, c) ==
    LET at == {i \in 1..Len(s) : s[i] = c}
    IN  IF at = {} THEN -1
        ELSE (CHOOSE i \in at : \A j \in at : i <= j) - 1

\* str.rfind(c): 0-based index of the last occurrence, -1 when there is none
PyRFindFirst(s, c) == PyFind(s, c)

PyRFind(s, c) ==
    LET at == {i \in 1..Len(s) : s[i] = c}
    IN  IF at = {} THEN -1
        ELSE (CHOOSE i \in at : \A j \in at : j <= i) - 1

\* s[start:end] with Python's treatment of negative and out-of-range indices
PySlice(s, start, end) ==
    LET n == Len(s)
        clamp(k) == IF k < 0 THEN (IF k + n < 0 THEN 0 ELSE k + n)
                    ELSE IF k > n THEN n ELSE k
        lo == clamp(start)
        hi == clamp(end)
    IN  IF lo >= hi THEN <<>> ELSE SubSeq(s, lo + 1, hi)

\* filename.split('.')[-1]: the text after the last dot, the whole when no dot
LastDotPart(s) ==
    LET dots == {i \in 1..Len(s) : s[i] = "."}
    IN  IF dots = {} THEN s
        ELSE SubSeq(s, (CHOOSE i \in dots : \A j \in dots : j <= i) + 1, Len(s))

\* All strings over an alphabet up to a length
StringsUpTo(alphabet, n) == UNION {[1..k -> alphabet] : k \in 0..n}

(***************************************************************************)
(* clean_gemini_json and json.loads.                                       *)
(*                                                                         *)
(* json.loads is modelled for texts over JsonAlphabet: objects whose       *)
(* members are "key": value pairs separated by commas, strings without     *)
(* escapes, whitespace between tokens.  Over this alphabet no other JSON   *)
(* value (number, array, literal) can be written, so the parser below      *)
(* accepts exactly the texts json.loads accepts.                           *)
(***************************************************************************)
Quote == "\""

JsonAlphabet == {"{", "}", Quote, ":", ",", " ", "x"}

NoValue == [t |-> "none", s |-> <<>>, m |-> <<>>]

JsonFail == [ok |-> FALSE, next |-> 0, val |-> NoValue]

SkipWs(s, i) ==
    LET stop == {j \in i..Len(s) : s[j] \notin Whitespace}
    IN  IF stop = {} THEN Len(s) + 1
        ELSE CHOOSE j \in stop : \A k \in stop : j <= k

\* a string token starting at the quote s[i]
ParseString(s, i) ==
    LET closes == {j \in (i + 1)..Len(s) : s[j] = Quote}
    IN  IF closes = {} THEN JsonFail
        ELSE LET j == CHOOSE c \in closes : \A k \in closes : c <= k
             IN  [ok |-> TRUE, next |-> j + 1,
                  val |-> [t |-> "str", s |-> SubSeq(s, i + 1, j - 1), m |-> <<>>]]

\* dict assignment: a repeated key keeps its place and takes the later value
PutMember(members, key, value) ==
    IF \E i \in 1..Len(members) : members[i].k = key
    THEN [i \in 1..Len(members) |->
            IF members[i].k = key THEN [k |-> key, v |-> value] ELSE members[i]]
    ELSE Append(members, [k |-> key, v |-> value])

RECURSIVE ParseValue(_, _)
RECURSIVE ParseMembers(_, _, _)

ParseMembers(s, i, acc) ==
    IF i > Len(s) \/ s[i] # Quote THEN JsonFail
    ELSE
      LET key == ParseString(s, i) IN
      IF ~key.ok THEN JsonFail
      ELSE
        LET colon == SkipWs(s, key.next) IN
        IF colon > Len(s) \/ s[colon] # ":" THEN JsonFail
        ELSE
          LET value == ParseValue(s, SkipWs(s, colon + 1)) IN
          IF ~value.ok THEN JsonFail
          ELSE
            LET e == SkipWs(s, value.next)
                acc2 == PutMember(acc, key.val.s, value.val)
            IN  IF e > Len(s) THEN JsonFail
                ELSE IF s[e] = "}"
                THEN [ok |-> TRUE, next |-> e + 1,
                      val |-> [t |-> "obj", s |-> <<>>, m |-> acc2]]
                ELSE IF s[e] = ","
                THEN ParseMembers(s, SkipWs(s, e + 1), acc2)
                ELSE JsonFail

ParseValue(s, i) ==
    IF i > Len(s) THEN JsonFail
    ELSE IF s[i] = "{"
    THEN LET j == SkipWs(s, i + 1)
         IN  IF j <= Len(s) /\ s[j] = "}"
             THEN [ok |-> TRUE, next |-> j + 1,
                   val |-> [t |-> "obj", s |-> <<>>, m |-> <<>>]]
             ELSE ParseMembers(s, j, <<>>)
    ELSE IF s[i] = Quote THEN ParseString(s, i)
    ELSE JsonFail

\* json.loads(text): the value, or a failure (JSONDecodeError)
JsonLoads(text) ==
    LET v == ParseValue(text, SkipWs(text, 1))
    IN  IF v.ok /\ SkipWs(text, v.next) > Len(text)
        THEN [ok |-> TRUE, val |-> v.val]
        ELSE [ok |-> FALSE, val |-> NoValue]

\* clean_gemini_json(raw): ok with the parsed value, or ~ok (ValueError)
CleanSlice(raw) == PySlice(raw, PyFind(raw, "{"), PyRFind(raw, "}") + 1)

clean_gemini_json(raw) == JsonLoads(CleanSlice(raw))

(***************************************************************************)
(* create_google_form: building one createItem request from a question.    *)
(***************************************************************************)
OptionLetters == {"A", "B", "C", "D", "a", "b", "c", "d"}

PrefixPunct == {")", ".", ":"}

\* re.sub(r"^[A-Da-d][\)\.:]?\s*", "", s)
ReSubUppercaseOnly(s) ==
    IF s = <<>> \/ s[1] \notin {"A", "B", "C", "D"} THEN s
    ELSE LET p == IF Len(s) >= 2 /\ s[2] \in PrefixPunct THEN 2 ELSE 1
         IN  SubSeq(s, SkipWs(s, p + 1), Len(s))

ReSubOptionPrefix(s) ==
    IF s = <<>> \/ s[1] \notin OptionLetters THEN s
    ELSE LET p == IF Len(s) >= 2 /\ s[2] \in PrefixPunct THEN 2 ELSE 1
         IN  SubSeq(s, SkipWs(s, p + 1), Len(s))

\* line 114: one element of cleaned_options
CleanedOption(opt) == ReSubOptionPrefix(StrStrip(opt))

cleaned_options(raw_options) ==
    [i \in 1..Len(raw_options) |-> CleanedOption(raw_options[i])]

\* line 120: the cleaning applied to the matched option
MatchedCleanNoStrip(opt) == ReSubOptionPrefix(opt)

MatchedClean(opt) == ReSubOptionPrefix(StrStrip(opt))

\* line 119: correct.strip().lower() in opt.lower()
OptionMatches(opt, correct) ==
    StrContains(StrLower(opt), StrLower(StrStrip(correct)))

\* lines 117-123: matched_correct, or Raised (IndexError on cleaned_options[0])
MatchedCorrectLast(raw_options, correct) ==
    LET hits == {i \in 1..Len(raw_options) : OptionMatches(raw_options[i], correct)}
    IN  IF hits # {}
        THEN [ok |-> TRUE,
              val |-> MatchedClean(raw_options[CHOOSE i \in hits : \A j \in hits : j <= i])]
        ELSE IF Len(raw_options) = 0 THEN [ok |-> FALSE, val |-> <<>>]
        ELSE [ok |-> TRUE, val |-> cleaned_options(raw_options)[1]]

MatchedCorrect(raw_options, correct) ==
    LET hits == {i \in 1..Len(raw_options) : OptionMatches(raw_options[i], correct)}
    IN  IF hits # {}
        THEN [ok |-> TRUE,
              val |-> MatchedClean(raw_options[CHOOSE i \in hits : \A j \in hits : i <= j])]
        ELSE IF Len(raw_options) = 0 THEN [ok |-> FALSE, val |-> <<>>]
        ELSE [ok |-> TRUE, val |-> cleaned_options(raw_options)[1]]

\* lines 125-129
Points(difficulty) ==
    IF StrLower(difficulty) = <<"m", "e", "d", "i", "u", "m">> THEN 2
    ELSE IF StrLower(difficulty) = <<"h", "a", "r", "d">> THEN 3
    ELSE 1

\* line 152: "location": {"index": 0}
ItemIndex == 0

\* lines 108-154: the createItem request of one question, ~ok when building raises
BuildRequest(q) ==
    LET m == MatchedCorrect(q.options, q.correct_answer)
    IN  IF ~m.ok THEN [ok |-> FALSE, item |-> NoValue]
        ELSE [ok |-> TRUE,
              item |-> [title |-> q.question,
                        pointValue |-> Points(q.difficulty),
                        correct |-> m.val,
                        options |-> cleaned_options(q.options),
                        index |-> ItemIndex]]

\* lines 106-155: requests, in the order of quiz["questions"]; ~ok when one
\* question's request cannot be built
BuildRequestsPrepend(questions) ==
    IF \E i \in 1..Len(questions) : ~BuildRequest(questions[i]).ok
    THEN [ok |-> FALSE, requests |-> <<>>]
    ELSE [ok |-> TRUE,
          requests |-> [i \in 1..Len(questions) |->
                          BuildRequest(questions[Len(questions) + 1 - i]).item]]

BuildRequests(questions) ==
    IF \E i \in 1..Len(questions) : ~BuildRequest(questions[i]).ok
    THEN [ok |-> FALSE, requests |-> <<>>]
    ELSE [ok |-> TRUE,
          requests |-> [i \in 1..Len(questions) |-> BuildRequest(questions[i]).item]]

(***************************************************************************)
(* The external Forms service: a batch applies its createItem requests in  *)
(* order, each inserting its item at the request's location index.         *)
(***************************************************************************)
InsertAt(items, index, item) ==
    SubSeq(items, 1, index) \o <<item>> \o SubSeq(items, index + 1, Len(items))

RECURSIVE ApplyBatch(_, _)
ApplyBatch(items, requests) ==
    IF requests = <<>> THEN items
    ELSE ApplyBatch(InsertAt(items, Head(requests).index, Head(requests)),
                    Tail(requests))

(***************************************************************************)
(* State.                                                                  *)
(***************************************************************************)
VARIABLES
    disk,        \* UPLOAD_FOLDER: file name -> bytes
    usedIds,     \* the uuids handed out so far
    up,          \* upload_file, one request per process
    interleaved, \* some upload wrote while another upload's file was open
    gen,         \* generate_quiz, the request in hand
    exp,         \* export_google_form, the request in hand
    form,        \* the form held by the Forms service for the export in hand
    cleanRun,    \* one application of the option cleaning
    matchRun,    \* one application of the item building
    jsonRun      \* one application of clean_gemini_json

vars == <<disk, usedIds, up, interleaved, gen, exp, form, cleanRun, matchRun, jsonRun>>

Procs == 1..NumUploads

EmptyDisk == [h \in {} |-> <<>>]

NoResponse == [status |-> 0, kind |-> "none", msg |-> ""]

\* an exception leaves the handler: the handler itself produces no response
Unhandled == [status |-> 0, kind |-> "unhandled", msg |-> ""]

ErrorResponse(status, msg) == [status |-> status, kind |-> "error", msg |-> msg]

OkResponse(kind) == [status |-> 200, kind |-> kind, msg |-> ""]

(***************************************************************************)
(* upload_file (lines 165-174).  A request carries the client's file name  *)
(* (None when the part has none) and its bytes; the bytes of process p are *)
(* tagged with p so that the origin of every stored byte is visible.       *)
(* Processes interleave at every file-system call, which covers several    *)
(* server workers as well as one.                                          *)
(***************************************************************************)
ClientNames ==
    { <<"n", ".", "P", "D", "F">>,
      <<"n", ".", "x", "/", "y">> }

BodyOf(p, n) == [i \in 1..n |-> 10 * p + i]

Uuids == {ToString(n) : n \in 1..NumUploads}

\* uuid.uuid4(): a value no earlier call returned
Uuid4Any(used) == Uuids

Uuid4(used) == Uuids \ used

UpIdle == [pc |-> "idle", filename |-> None, body |-> <<>>, handle |-> <<>>,
           pos |-> 0, resp |-> NoResponse]

\* f.write at the descriptor's own offset
WriteAt(content, pos, byte) ==
    [i \in 1..(IF Len(content) > pos + 1 THEN Len(content) ELSE pos + 1) |->
        IF i = pos + 1 THEN byte
        ELSE IF i <= Len(content) THEN content[i] ELSE 0]

UploadReceive(p) ==
    /\ up[p].pc = "idle"
    /\ \E name \in ClientNames \cup {None}, n \in 0..MaxChunks :
          up' = [up EXCEPT ![p] = [UpIdle EXCEPT !.pc = "received",
                                                 !.filename = name,
                                                 !.body = BodyOf(p, n)]]
    /\ UNCHANGED <<disk, usedIds, interleaved, gen, exp, form, cleanRun, matchRun, jsonRun>>

\* lines 167-169: ext, file_id, file_path
UploadName(p) ==
    /\ up[p].pc = "received"
    /\ IF up[p].filename = None
       THEN /\ up' = [up EXCEPT ![p].pc = "done", ![p].resp = Unhandled]
            /\ UNCHANGED usedIds
       ELSE \E id \in Uuid4(usedIds) :
              /\ usedIds' = usedIds \cup {id}
              /\ up' = [up EXCEPT
                          ![p].pc = "named",
                          ![p].handle = <<id, ".">> \o StrLower(LastDotPart(up[p].filename))]
    /\ UNCHANGED <<disk, interleaved, gen, exp, form, cleanRun, matchRun, jsonRun>>

\* line 171: open(file_path, "wb") creates or truncates the file; it raises
\* when the path names a directory that does not exist
UploadOpen(p) ==
    /\ up[p].pc = "named"
    /\ \/ /\ \A i \in 1..Len(up[p].handle) : up[p].handle[i] # "/"
          /\ disk' = (up[p].handle :> <<>>) @@ disk
          /\ up' = [up EXCEPT ![p].pc = "open"]
       \/ /\ up' = [up EXCEPT ![p].pc = "done", ![p].resp = Unhandled]
          /\ UNCHANGED disk
    /\ UNCHANGED <<usedIds, interleaved, gen, exp, form, cleanRun, matchRun, jsonRun>>

\* line 172: shutil.copyfileobj, one chunk at a time; a write may raise
UploadCopy(p) ==
    /\ up[p].pc = "open"
    /\ up[p].pos < Len(up[p].body)
    /\ \/ /\ disk' = [disk EXCEPT ![up[p].handle] =
                        WriteAt(@, up[p].pos, up[p].body[up[p].pos + 1])]
          /\ up' = [up EXCEPT ![p].pos = @ + 1]
          /\ interleaved' = (interleaved \/ \E q \in Procs \ {p} : up[q].pc = "open")
       \/ /\ up' = [up EXCEPT ![p].pc = "done", ![p].resp = Unhandled]
          /\ UNCHANGED <<disk, interleaved>>
    /\ UNCHANGED <<usedIds, gen, exp, form, cleanRun, matchRun, jsonRun>>

\* lines 172-174: the copy is complete, the file is closed, the handle returned
UploadReturn(p) ==
    /\ up[p].pc = "open"
    /\ up[p].pos = Len(up[p].body)
    /\ up' = [up EXCEPT ![p].pc = "done", ![p].resp = OkResponse("filename")]
    /\ UNCHANGED <<disk, usedIds, interleaved, gen, exp, form, cleanRun, matchRun, jsonRun>>

UploadStep(p) ==
    UploadName(p) \/ UploadOpen(p) \/ UploadCopy(p) \/ UploadReturn(p)

(***************************************************************************)
(* generate_quiz (lines 177-230).                                          *)
(***************************************************************************)
\* request bodies: not JSON, a JSON array, a JSON object without "filename",
\* or a JSON object with a filename (possibly empty)
RequestedNames ==
    { <<>>,
      <<"1", ".", "p", "d", "f">>,
      <<"1", ".", "P", "N", "G">>,
      <<"2", ".", "j", "p", "e", "g">>,
      <<"2", ".", "j", "p", "g">>,
      <<"1", ".", "t", "x", "t">>,
      <<"1">> }

GenBodies ==
    {[json |-> "invalid", filename |-> None], [json |-> "array", filename |-> None],
     [json |-> "object", filename |-> None]}
    \cup {[json |-> "object", filename |-> f] : f \in RequestedNames}

\* what the PDF library or the OCR engine may hand back for a file
ExtractedTexts == { <<>>, <<" ">>, <<"t">>, <<" ", "t", " ">> }

\* what response.text may hold
ModelReplies ==
    { <<"x">>,
      <<"x", "{", "}", "x">>,
      <<"{", Quote, "x", Quote, ":", "{", "}", "}">>,
      <<"{", "x", "}">>,
      <<"}", " ", "{">> }

GenIdle == [pc |-> "idle", body |-> [json |-> "object", filename |-> None],
            filename |-> None, ext |-> <<>>, extracted |-> FALSE,
            content_text |-> <<>>, aiCalls |-> 0, aiFailed |-> FALSE,
            reply |-> <<>>, quiz |-> NoValue, resp |-> NoResponse]

GenOthers == <<disk, usedIds, up, interleaved, exp, form, cleanRun, matchRun, jsonRun>>

GenReceive ==
    /\ gen.pc = "idle"
    /\ \E b \in GenBodies : gen' = [GenIdle EXCEPT !.pc = "received", !.body = b]
    /\ UNCHANGED GenOthers

\* lines 179-180: request.json() and data.get("filename"), outside any try
GenDecode ==
    /\ gen.pc = "received"
    /\ IF gen.body.json # "object"
       THEN gen' = [gen EXCEPT !.pc = "done", !.resp = Unhandled]
       ELSE gen' = [gen EXCEPT !.pc = "decoded", !.filename = gen.body.filename]
    /\ UNCHANGED GenOthers

\* lines 181-182
GenCheckFilename ==
    /\ gen.pc = "decoded"
    /\ IF gen.filename = None \/ gen.filename = <<>>
       THEN gen' = [gen EXCEPT !.pc = "done",
                               !.resp = ErrorResponse(400, "Missing filename")]
       ELSE gen' = [gen EXCEPT !.pc = "named"]
    /\ UNCHANGED GenOthers

\* lines 184-186
GenCheckExists ==
    /\ gen.pc = "named"
    /\ IF gen.filename \notin DOMAIN disk
       THEN gen' = [gen EXCEPT !.pc = "done",
                               !.resp = ErrorResponse(404, "File not found")]
       ELSE gen' = [gen EXCEPT !.pc = "found"]
    /\ UNCHANGED GenOthers

SupportedExts ==
    { <<"p", "d", "f">>, <<"j", "p", "g">>, <<"j", "p", "e", "g">>, <<"p", "n", "g">> }

\* lines 188-194: the extension picks the extractor; the extractor (outside any
\* try) raises or returns its text stripped
GenExtract ==
    /\ gen.pc = "found"
    /\ LET ext == StrLower(LastDotPart(gen.filename))
       IN  IF ext \in SupportedExts
           THEN \/ gen' = [gen EXCEPT !.pc = "done", !.ext = ext, !.resp = Unhandled]
                \/ \E text \in ExtractedTexts :
                      gen' = [gen EXCEPT !.pc = "extracted", !.ext = ext,
                                         !.extracted = TRUE,
                                         !.content_text = StrStrip(text)]
           ELSE gen' = [gen EXCEPT !.pc = "done", !.ext = ext,
                                   !.resp = ErrorResponse(415, "Unsupported file type")]
    /\ UNCHANGED GenOthers

\* line 196: not content_text.strip()
IsBlankNever(text) == FALSE

IsBlank(text) == StrStrip(text) = <<>>

\* lines 196-223: the empty-text check, then the prompt
GenCheckText ==
    /\ gen.pc = "extracted"
    /\ IF IsBlank(gen.content_text)
       THEN gen' = [gen EXCEPT !.pc = "done",
                               !.resp = ErrorResponse(422, "No text found")]
       ELSE gen' = [gen EXCEPT !.pc = "prompted"]
    /\ UNCHANGED GenOthers

\* line 226: model.generate_content(prompt), inside the try
GenCallAI ==
    /\ gen.pc = "prompted"
    /\ \/ gen' = [gen EXCEPT !.pc = "done", !.aiCalls = @ + 1, !.aiFailed = TRUE,
                             !.resp = ErrorResponse(500, "Gemini Error")]
       \/ \E r \in ModelReplies :
             gen' = [gen EXCEPT !.pc = "replied", !.aiCalls = @ + 1, !.reply = r]
    /\ UNCHANGED GenOthers

\* lines 227-230
GenParse ==
    /\ gen.pc = "replied"
    /\ IF clean_gemini_json(gen.reply).ok
       THEN gen' = [gen EXCEPT !.pc = "done", !.quiz = clean_gemini_json(gen.reply).val,
                               !.resp = OkResponse("quiz")]
       ELSE gen' = [gen EXCEPT !.pc = "done",
                               !.resp = ErrorResponse(500, "Gemini Error: Invalid Gemini JSON")]
    /\ UNCHANGED GenOthers

GenStep ==
    \/ GenDecode \/ GenCheckFilename \/ GenCheckExists \/ GenExtract
    \/ GenCheckText \/ GenCallAI \/ GenParse

(***************************************************************************)
(* export_google_form (lines 233-244) and create_google_form (71-160).     *)
(***************************************************************************)
Easy == <<"e", "a", "s", "y">>

Hard == <<"H", "a", "r", "d">>

SampleQuestions ==
    { [question |-> <<"q", "1">>,
       options |-> << <<"A", ")", " ", "P">>, <<"B", ")", " ", "L">> >>,
       correct_answer |-> <<"l">>, difficulty |-> Easy],
      [question |-> <<"q", "2">>,
       options |-> << <<"R">>, <<"c", ".", "T">> >>,
       correct_answer |-> <<"x">>, difficulty |-> Hard],
      [question |-> <<"q", "3">>,
       options |-> << >>,
       correct_answer |-> <<"x">>, difficulty |-> Easy] }

\* the "quiz" of a request body: absent, {} (both falsy), an object without
\* "questions", or a quiz
NoQuiz == [kind |-> "absent", questions |-> <<>>]

ExportQuizzes ==
    {NoQuiz, [kind |-> "empty", questions |-> <<>>],
     [kind |-> "noquestions", questions |-> <<>>]}
    \cup {[kind |-> "quiz", questions |-> qs] :
            qs \in UNION {[1..n -> SampleQuestions] : n \in 0..MaxQuestions}}

ExportBodies ==
    {[json |-> "invalid", quiz |-> NoQuiz]}
    \cup {[json |-> "object", quiz |-> q] : q \in ExportQuizzes}

NoForm == [exists |-> FALSE, isQuiz |-> FALSE, items |-> <<>>]

ExpIdle == [pc |-> "idle", body |-> [json |-> "object", quiz |-> NoQuiz],
            quiz |-> NoQuiz, calls |-> <<>>, failedAt |-> "",
            requests |-> <<>>, resp |-> NoResponse]

ExpOthers == <<disk, usedIds, up, interleaved, gen, cleanRun, matchRun, jsonRun>>

\* line 244: any exception raised inside the try ends the request
ExportError(step) ==
    [exp EXCEPT !.pc = "done", !.failedAt = step,
                !.resp = ErrorResponse(500, "Export Error: " \o step)]

Issued(op, ok) == Append(exp.calls, [op |-> op, ok |-> ok])

ExpReceive ==
    /\ exp.pc = "idle"
    /\ \E b \in ExportBodies : exp' = [ExpIdle EXCEPT !.pc = "received", !.body = b]
    /\ form' = NoForm
    /\ UNCHANGED ExpOthers

\* lines 236-239, inside the try
ExpDecode ==
    /\ exp.pc = "received"
    /\ IF exp.body.json # "object"
       THEN exp' = ExportError("request.json")
       ELSE IF exp.body.quiz.kind \in {"absent", "empty"}
       THEN exp' = [exp EXCEPT !.pc = "done",
                               !.resp = ErrorResponse(400, "Missing quiz data")]
       ELSE exp' = [exp EXCEPT !.pc = "decoded", !.quiz = exp.body.quiz]
    /\ UNCHANGED <<form>>
    /\ UNCHANGED ExpOthers

\* lines 72-75: credentials and the service object; no call to the service yet
ExpCredentials ==
    /\ exp.pc = "decoded"
    /\ \/ exp' = [exp EXCEPT !.pc = "authorized"]
       \/ exp' = ExportError("credentials")
    /\ UNCHANGED <<form>>
    /\ UNCHANGED ExpOthers

\* lines 78-84: forms().create
ExpCreateForm ==
    /\ exp.pc = "authorized"
    /\ \/ /\ exp' = [exp EXCEPT !.pc = "created", !.calls = Issued("create", TRUE)]
          /\ form' = [exists |-> TRUE, isQuiz |-> FALSE, items |-> <<>>]
       \/ /\ exp' = [ExportError("create") EXCEPT !.calls = Issued("create", FALSE)]
          /\ UNCHANGED form
    /\ UNCHANGED ExpOthers

\* lines 87-103: forms().batchUpdate with updateSettings
ExpEnableQuiz ==
    /\ exp.pc = "created"
    /\ \/ /\ exp' = [exp EXCEPT !.pc = "quizmode", !.calls = Issued("updateSettings", TRUE)]
          /\ form' = [form EXCEPT !.isQuiz = TRUE]
       \/ /\ exp' = [ExportError("updateSettings") EXCEPT
                        !.calls = Issued("updateSettings", FALSE)]
          /\ UNCHANGED form
    /\ UNCHANGED ExpOthers

\* lines 106-155: one request per question; a question that cannot be turned
\* into a request, or a quiz without "questions", raises
ExpBuild ==
    /\ exp.pc = "quizmode"
    /\ IF exp.quiz.kind = "noquestions" \/ ~BuildRequests(exp.quiz.questions).ok
       THEN exp' = ExportError("build")
       ELSE exp' = [exp EXCEPT !.pc = "built",
                               !.requests = BuildRequests(exp.quiz.questions).requests]
    /\ UNCHANGED <<form>>
    /\ UNCHANGED ExpOthers

\* line 157: forms().batchUpdate with the createItem requests, all or nothing
ExpBatchCarryOn ==
    /\ exp.pc = "built"
    /\ \/ /\ exp' = [exp EXCEPT !.pc = "filled", !.calls = Issued("createItems", TRUE)]
          /\ form' = [form EXCEPT !.items = ApplyBatch(@, exp.requests)]
       \/ /\ exp' = [exp EXCEPT !.pc = "filled", !.calls = Issued("createItems", FALSE)]
          /\ UNCHANGED form
    /\ UNCHANGED ExpOthers

ExpBatch ==
    /\ exp.pc = "built"
    /\ \/ /\ exp' = [exp EXCEPT !.pc = "filled", !.calls = Issued("createItems", TRUE)]
          /\ form' = [form EXCEPT !.items = ApplyBatch(@, exp.requests)]
       \/ /\ exp' = [ExportError("createItems") EXCEPT
                        !.calls = Issued("createItems", FALSE)]
          /\ UNCHANGED form
    /\ UNCHANGED ExpOthers

\* lines 159-160 and 242: forms().get and the responder link
ExpFetch ==
    /\ exp.pc = "filled"
    /\ \/ exp' = [exp EXCEPT !.pc = "done", !.calls = Issued("get", TRUE),
                             !.resp = OkResponse("url")]
       \/ exp' = [ExportError("get") EXCEPT !.calls = Issued("get", FALSE)]
    /\ UNCHANGED <<form>>
    /\ UNCHANGED ExpOthers

ExpStep ==
    \/ ExpDecode \/ ExpCredentials \/ ExpCreateForm \/ ExpEnableQuiz
    \/ ExpBuild \/ ExpBatch \/ ExpFetch

(***************************************************************************)
(* Applications of the pure functions to bounded inputs.                   *)
(***************************************************************************)
CleanAlphabet == {"B", "c", "r", ")", ".", " "}

CleanIdle == [opt |-> <<>>, done |-> FALSE, out |-> <<>>]

PureOthers == <<disk, usedIds, up, interleaved, gen, exp, form>>

\* line 114 applied to one option
CleanApply ==
    /\ ~cleanRun.done
    /\ cleanRun' = [cleanRun EXCEPT !.done = TRUE, !.out = CleanedOption(cleanRun.opt)]
    /\ UNCHANGED <<matchRun, jsonRun>>
    /\ UNCHANGED PureOthers

OptPrefixes == { <<>>, <<"B", ")", " ">>, <<"c", ".">>, <<" ">> }

OptBodies == { <<"P">>, <<"p", "r">>, <<"L">> }

OptTrails == { <<>>, <<" ">> }

OptionSamples ==
    {p \o b \o t : p \in OptPrefixes, b \in OptBodies, t \in OptTrails}

CorrectSamples ==
    { <<"p">>, <<"P">>, <<" ", "p", " ">>, <<"l">>, <<"b", ")">>, <<"p", "r">>,
      <<"z">>, <<>> }

MatchQuestions ==
    {[question |-> <<"q">>, options |-> os, correct_answer |-> c, difficulty |-> Easy] :
        os \in UNION {[1..n -> OptionSamples] : n \in 0..MaxOpts},
        c \in CorrectSamples}

MatchIdle == [q |-> [question |-> <<"q">>, options |-> <<>>,
                     correct_answer |-> <<>>, difficulty |-> Easy],
              done |-> FALSE, ok |-> FALSE, item |-> NoValue]

\* lines 108-154 applied to one question
MatchApply ==
    /\ ~matchRun.done
    /\ matchRun' = [matchRun EXCEPT !.done = TRUE,
                                    !.ok = BuildRequest(matchRun.q).ok,
                                    !.item = BuildRequest(matchRun.q).item]
    /\ UNCHANGED <<cleanRun, jsonRun>>
    /\ UNCHANGED PureOthers

LongReplies ==
    { <<"x", " ", "{", Quote, "x", Quote, ":", Quote, "x", Quote, "}", " ", "x">>,
      <<"{", Quote, "x", Quote, ":", "{", "}", "}">>,
      <<"{", "}", " ", "x", "}", " ", "{", "}">>,
      <<"{", Quote, "x", Quote, ":", "{", "}", ",", Quote, Quote, ":", Quote, Quote, "}">> }

JsonIdle == [raw |-> <<>>, done |-> FALSE, ok |-> FALSE, val |-> NoValue]

\* lines 59-66 applied to one reply
JsonApply ==
    /\ ~jsonRun.done
    /\ jsonRun' = [jsonRun EXCEPT !.done = TRUE,
                                  !.ok = clean_gemini_json(jsonRun.raw).ok,
                                  !.val = clean_gemini_json(jsonRun.raw).val]
    /\ UNCHANGED <<cleanRun, matchRun>>
    /\ UNCHANGED PureOthers

(***************************************************************************)
(* Specifications.                                                         *)
(***************************************************************************)
HandlersIdle ==
    /\ usedIds = {}
    /\ up = [p \in Procs |-> UpIdle]
    /\ interleaved = FALSE
    /\ gen = GenIdle
    /\ exp = ExpIdle
    /\ form = NoForm

PureIdle ==
    /\ cleanRun = CleanIdle
    /\ matchRun = MatchIdle
    /\ jsonRun = JsonIdle

\* the server: requests of the three endpoints, one request in hand at a time
Busy ==
    \/ gen.pc # "idle"
    \/ exp.pc # "idle"
    \/ \E p \in Procs : up[p].pc # "idle"

\* the response has been sent (or the exception has left the handler)
UploadFinish(p) ==
    /\ up[p].pc = "done"
    /\ up' = [up EXCEPT ![p] = UpIdle]
    /\ UNCHANGED <<disk, usedIds, interleaved, gen, exp, form, cleanRun, matchRun, jsonRun>>

GenFinish ==
    /\ gen.pc = "done"
    /\ gen' = GenIdle
    /\ UNCHANGED GenOthers

ExpFinish ==
    /\ exp.pc = "done"
    /\ exp' = ExpIdle
    /\ UNCHANGED <<form>>
    /\ UNCHANGED ExpOthers

Init == HandlersIdle /\ PureIdle /\ disk = EmptyDisk

Next ==
    \/ \E p \in Procs :
          /\ ~Busy
          /\ Cardinality(usedIds) < NumUploads
          /\ UploadReceive(p)
    \/ \E p \in Procs : UploadStep(p)
    \/ \E p \in Procs : UploadFinish(p)
    \/ (~Busy /\ GenReceive)
    \/ GenStep
    \/ GenFinish
    \/ (~Busy /\ ExpReceive)
    \/ ExpStep
    \/ ExpFinish

Spec == Init /\ [][Next]_vars

\* concurrent uploads
InitUpload == HandlersIdle /\ PureIdle /\ disk = EmptyDisk

NextUpload == \E p \in Procs : UploadReceive(p) \/ UploadStep(p)

SpecUpload == InitUpload /\ [][NextUpload]_vars

\* generate_quiz against an upload directory holding some files
StoredNames ==
    { <<"1", ".", "p", "d", "f">>, <<"1", ".", "P", "N", "G">>,
      <<"2", ".", "j", "p", "e", "g">>, <<"1", ".", "t", "x", "t">>, <<"1">> }

InitGenerate ==
    /\ HandlersIdle /\ PureIdle
    /\ \E names \in SUBSET StoredNames : disk = [h \in names |-> <<>>]

NextGenerate == GenReceive \/ GenStep

SpecGenerate == InitGenerate /\ [][NextGenerate]_vars

\* export_google_form
InitExport == HandlersIdle /\ PureIdle /\ disk = EmptyDisk

NextExport == ExpReceive \/ ExpStep

SpecExport == InitExport /\ [][NextExport]_vars

\* the option cleaning on every option of up to MaxOptLen characters
InitClean ==
    /\ HandlersIdle /\ disk = EmptyDisk
    /\ matchRun = MatchIdle /\ jsonRun = JsonIdle
    /\ \E o \in StringsUpTo(CleanAlphabet, MaxOptLen) : cleanRun = [CleanIdle EXCEPT !.opt = o]

SpecClean == InitClean /\ [][CleanApply]_vars

\* the item building on every sample question of up to MaxOpts options
InitMatch ==
    /\ HandlersIdle /\ disk = EmptyDisk
    /\ cleanRun = CleanIdle /\ jsonRun = JsonIdle
    /\ \E q \in MatchQuestions : matchRun = [MatchIdle EXCEPT !.q = q]

SpecMatch == InitMatch /\ [][MatchApply]_vars

\* clean_gemini_json on every reply of up to MaxRawLen characters and on some
\* longer ones
InitJson ==
    /\ HandlersIdle /\ disk = EmptyDisk
    /\ cleanRun = CleanIdle /\ matchRun = MatchIdle
    /\ \E r \in StringsUpTo(JsonAlphabet, MaxRawLen) \cup LongReplies :
          jsonRun = [JsonIdle EXCEPT !.raw = r]

SpecJson == InitJson /\ [][JsonApply]_vars

(***************************************************************************)
(* The claims.                                                             *)
(***************************************************************************)
SeqMin(S) == CHOOSE i \in S : \A j \in S : i <= j

SeqMax(S) == CHOOSE i \in S : \A j \in S : j <= i

NonBlank(text) == \E i \in 1..Len(text) : text[i] \notin Whitespace

\* out is t without its leading option-letter prefix: one of A-D in either
\* case, then at most one of ) . :, then all the whitespace that follows
StripsPrefix(out, t) ==
    IF t = <<>> \/ t[1] \notin OptionLetters THEN out = t
    ELSE \E k \in 1..Len(t) :
            /\ out = SubSeq(t, k + 1, Len(t))
            /\ \A i \in 2..k : t[i] \in Whitespace \/ (i = 2 /\ t[2] \in PrefixPunct)
            /\ out # <<>> => out[1] \notin Whitespace
            /\ (k = 1 /\ out # <<>>) => out[1] \notin PrefixPunct

\* t is s without its leading and trailing whitespace
IsTrimOf(t, s) ==
    \E i \in 0..Len(s), j \in 0..Len(s) :
        /\ i + Len(t) + j = Len(s)
        /\ t = SubSeq(s, i + 1, i + Len(t))
        /\ \A k \in 1..i : s[k] \in Whitespace
        /\ \A k \in (Len(s) - j + 1)..Len(s) : s[k] \in Whitespace
        /\ t # <<>> => (t[1] \notin Whitespace /\ t[Len(t)] \notin Whitespace)

\* the first option, in the original order, whose lowercase text contains the
\* lowercase text `wanted`; 0 when there is none
FirstContaining(options, wanted) ==
    LET hits == {i \in 1..Len(options) : StrContains(StrLower(options[i]), StrLower(wanted))}
    IN  IF hits = {} THEN 0 ELSE SeqMin(hits)

\* the order of the calls to the Forms service
CallOrder == <<"create", "updateSettings", "createItems", "get">>

\* C1 (SpecGenerate): every finished Generate Quiz request has a response, and
\* it is the one of the first failing check in the order: filename absent or
\* empty -> 400; file not in the upload directory -> 404; extension not
\* pdf/jpg/jpeg/png -> 415; extracted text empty or blank -> 422; AI call or
\* JSON extraction failed -> 500 with a message; otherwise 200 with the quiz.
C1_ResponseByFirstFailingCheck ==
    gen.pc = "done" =>
      LET name == gen.body.filename
          named == gen.body.json = "object" /\ name # None /\ name # <<>>
          stored == named /\ name \in DOMAIN disk
          supported == stored /\ StrLower(LastDotPart(name)) \in SupportedExts
          hasText == supported /\ gen.extracted /\ NonBlank(gen.content_text)
      IN  /\ gen.resp.kind \in {"error", "quiz"}
          /\ ~named => gen.resp.status = 400
          /\ named /\ ~stored => gen.resp.status = 404
          /\ stored /\ ~supported => gen.resp.status = 415
          /\ supported /\ ~hasText => gen.resp.status = 422
          /\ hasText /\ (gen.aiFailed \/ ~clean_gemini_json(gen.reply).ok)
                => gen.resp.status = 500 /\ gen.resp.msg # ""
          /\ hasText /\ ~gen.aiFailed /\ clean_gemini_json(gen.reply).ok
                => gen.resp.status = 200 /\ gen.resp.kind = "quiz"

\* C2 (Spec): for each of the three endpoints, a request that has ended has
\* ended with a response produced by the handler, and a failure response
\* carries a status and a message; no exception leaves a handler.
C2_EveryFailureStructured ==
    LET structured(r) ==
          /\ r.kind # "unhandled"
          /\ r.kind = "error" => (r.status >= 400 /\ r.msg # "")
    IN  /\ gen.pc = "done" => structured(gen.resp)
        /\ exp.pc = "done" => structured(exp.resp)
        /\ \A p \in Procs : up[p].pc = "done" => structured(up[p].resp)

\* C3 (SpecGenerate): within one request the AI model is called at most once,
\* and only when the filename is present, the file exists, the extension is
\* supported and the extracted text is not blank; a request whose extracted
\* text is blank ends with 422 and no AI call.
C3_AICalledOnceAfterChecks ==
    /\ gen.aiCalls <= 1
    /\ gen.aiCalls >= 1 =>
          /\ gen.body.json = "object"
          /\ gen.body.filename # None /\ gen.body.filename # <<>>
          /\ gen.body.filename \in DOMAIN disk
          /\ StrLower(LastDotPart(gen.body.filename)) \in SupportedExts
          /\ gen.extracted /\ NonBlank(gen.content_text)
    /\ gen.resp.status = 422 => gen.aiCalls = 0
    /\ (gen.pc = "done" /\ gen.extracted /\ ~NonBlank(gen.content_text))
          => (gen.resp.status = 422 /\ gen.aiCalls = 0)
    /\ (gen.aiFailed /\ gen.pc = "done") => (gen.aiCalls = 1 /\ gen.resp.status = 500)

C3_Witness ==
    /\ gen.pc = "done" /\ gen.extracted /\ ~NonBlank(gen.content_text)
    /\ gen.resp.status = 422

\* C4 (SpecUpload): under every interleaving of the uploads, two uploads that
\* returned a handle returned different handles, and the file stored under a
\* returned handle holds exactly the bytes of the upload that returned it.
C4_UploadsDoNotCollide ==
    \A p \in Procs :
      (up[p].pc = "done" /\ up[p].resp.kind = "filename") =>
        /\ up[p].handle \in DOMAIN disk
        /\ disk[up[p].handle] = up[p].body
        /\ \A q \in Procs \ {p} :
              (up[q].pc = "done" /\ up[q].resp.kind = "filename")
                 => up[q].handle # up[p].handle

C4_Witness ==
    /\ interleaved
    /\ \A p \in Procs :
          /\ up[p].pc = "done" /\ up[p].resp.kind = "filename"
          /\ Len(up[p].body) = MaxChunks
          /\ LastDotPart(up[p].handle) = <<"p", "d", "f">>

\* C5 (SpecExport): the calls to the Forms service are a prefix of create,
\* updateSettings, createItems, get; every call but the last one issued has
\* succeeded; after a failure (of a call or of the building of an item) the
\* request has ended with a 500 carrying a message, and no further call, in
\* particular none that deletes or repairs the form, has been issued.
C5_CallsInOrderNoRecovery ==
    /\ Len(exp.calls) <= Len(CallOrder)
    /\ \A i \in 1..Len(exp.calls) : exp.calls[i].op = CallOrder[i]
    /\ \A i \in 1..(Len(exp.calls) - 1) : exp.calls[i].ok
    /\ (\E i \in 1..Len(exp.calls) : ~exp.calls[i].ok) => exp.failedAt # ""
    /\ exp.failedAt # "" =>
          /\ exp.pc = "done"
          /\ exp.resp.kind = "error" /\ exp.resp.status = 500 /\ exp.resp.msg # ""
    /\ exp.failedAt = "build" =>
          /\ Len(exp.calls) = 2
          /\ form.exists /\ form.items = <<>>
    /\ (exp.pc = "done" /\ exp.resp.kind = "url") =>
          (Len(exp.calls) = 4 /\ \A i \in 1..4 : exp.calls[i].ok)

C5_Witness ==
    /\ exp.pc = "done" /\ exp.failedAt = "createItems"
    /\ Len(exp.calls) = 3 /\ ~exp.calls[3].ok
    /\ Len(exp.quiz.questions) >= 1
    /\ form.exists /\ form.isQuiz /\ form.items = <<>>

\* C6 as stated (SpecClean): the cleaned option is the option string with its
\* leading option-letter prefix removed, and an option string without such a
\* prefix is returned unchanged.
C6_Original == cleanRun.done => StripsPrefix(cleanRun.out, cleanRun.opt)

\* C6 as amended (SpecClean): the cleaned option is the whitespace-trimmed
\* option string with its leading option-letter prefix removed; an option
\* string that has no option-letter prefix and no leading or trailing
\* whitespace is returned unchanged.
C6_TrimThenStripPrefix ==
    cleanRun.done =>
      LET opt == cleanRun.opt
      IN  /\ \E a \in 1..(Len(opt) + 1), b \in 0..Len(opt) :
                /\ IsTrimOf(SubSeq(opt, a, b), opt)
                /\ StripsPrefix(cleanRun.out, SubSeq(opt, a, b))
          /\ (opt = <<>> \/ (opt[1] \notin OptionLetters \cup Whitespace
                             /\ opt[Len(opt)] \notin Whitespace))
                => cleanRun.out = opt

C6_Witness ==
    /\ cleanRun.done
    /\ cleanRun.opt = <<" ", "c", ".", "r">>
    /\ cleanRun.out = <<"r">>

C8_ItemsInReverseOrder ==
    (exp.pc = "done" /\ exp.resp.kind = "url") =>
      LET qs == exp.quiz.questions
          n == Len(qs)
      IN  /\ Len(form.items) = n
          /\ \A k \in 1..n :
                /\ form.items[k].title = qs[n + 1 - k].question
                /\ form.items[k] = BuildRequest(qs[n + 1 - k]).item

C8_Witness ==
    /\ exp.pc = "done" /\ exp.resp.kind = "url"
    /\ Len(exp.quiz.questions) = MaxQuestions
    /\ exp.quiz.questions[1].question # exp.quiz.questions[MaxQuestions].question
    /\ form.items[1].title = exp.quiz.questions[MaxQuestions].question

\* C9 (SpecJson): the value returned is the parse of the text from the first
\* '{' to the last '}' inclusive; the extraction fails when there is no '{',
\* no '}', the last '}' is before the first '{', or that text does not parse.
C9_ParsesFirstOpenToLastClose ==
    jsonRun.done =>
      LET raw == jsonRun.raw
          opens == {i \in 1..Len(raw) : raw[i] = "{"}
          closes == {i \in 1..Len(raw) : raw[i] = "}"}
      IN  IF opens = {} \/ closes = {} THEN ~jsonRun.ok
          ELSE IF SeqMax(closes) < SeqMin(opens) THEN ~jsonRun.ok
          ELSE LET parsed == JsonLoads(SubSeq(raw, SeqMin(opens), SeqMax(closes)))
               IN  /\ jsonRun.ok = parsed.ok
                   /\ jsonRun.val = parsed.val

C9_Witness ==
    /\ jsonRun.done /\ jsonRun.ok
    /\ jsonRun.raw[1] = "x" /\ jsonRun.raw[Len(jsonRun.raw)] = "x"
    /\ Len(jsonRun.val.m) = 1

\* C10 (SpecMatch): in the item built for a question with at least one option,
\* the graded value is one of the item's choices.
C10_CorrectAmongChoices ==
    (matchRun.done /\ Len(matchRun.q.options) >= 1) =>
      /\ matchRun.ok
      /\ \E i \in 1..Len(matchRun.item.options) :
            matchRun.item.correct = matchRun.item.options[i]

C10_Witness ==
    /\ matchRun.done /\ matchRun.ok
    /\ Len(matchRun.q.options) = MaxOpts
    /\ FirstContaining(matchRun.q.options, StrStrip(matchRun.q.correct_answer)) = 0
    /\ matchRun.item.correct = matchRun.item.options[1]
    /\ matchRun.item.options[1] # matchRun.q.options[1]

=============================================================================
